---- MODULE Spec2Model ----
(***************************************************************************)
(* Model of src/src/primes.rs: is_prime, generate_primes, is_prime_list,   *)
(* is_prime_lazy and is_mersenne_prime.                                    *)
(*                                                                         *)
(* Number formats.  The program computes in i32, u128 and f32.  The model  *)
(* keeps the three formats and their arithmetic (two's-complement range,   *)
(* truncating division, remainder with the sign of the dividend, overflow  *)
(* of +, IEEE round-to-nearest-even conversion and square root, NaN) but   *)
(* at a quarter of the i32/f32 width so that every input can be            *)
(* enumerated: i32 is 8 bits wide (I32_MIN = -128, I32_MAX = 127), f32 has *)
(* a 6-bit significand where the real one has 24, and u128 is 8 bits wide  *)
(* (U128_MAX = 255).  Like 2^31 - 1, 2^7 - 1 is a prime; like 2^128 - 1,   *)
(* 2^8 - 1 is a multiple of 3.                                             *)
(***************************************************************************)
EXTENDS Integers, Sequences, FiniteSets, TLC

\* ------------------------------------------------------------------ formats
I32_MAX == 127
I32_MIN == -128
U128_MAX == 255
F32_MANT_BITS == 6

\* longest argument list tried for is_prime_list (besides the tests' list)
MaxListLen == 3

RECURSIVE Pow2(_)
Pow2(k) == IF k <= 0 THEN 1 ELSE 2 * Pow2(k - 1)

\* u128::ilog2 for x >= 1: floor of the base-2 logarithm
RECURSIVE ilog2(_)
ilog2(x) == IF x < 2 THEN 0 ELSE 1 + ilog2(x \div 2)

\* floor of the square root of a natural number
RECURSIVE ISqrt(_)
ISqrt(v) ==
    IF v < 2 THEN v
    ELSE LET s == 2 * ISqrt(v \div 4)
         IN  IF (s + 1) * (s + 1) > v THEN s ELSE s + 1

\* An f32 value is held as an integer count of units of 1/F32_ONE, which is
\* exact for every value the program meets here (0, and magnitudes >= 1.0).
F32_ONE == Pow2(F32_MANT_BITS - 1)
\* NaN: -1 unit is not the image of any value above
F32_NAN == 0 - 1

\* spacing of the f32 values in the binade of u (u >= F32_ONE), in units
Ulp(u) == Pow2(ilog2(u) - (F32_MANT_BITS - 1))

\* round a non-negative exact value (in units) to the nearest f32, ties to
\* the even significand
RoundF32(u) ==
    IF u < F32_ONE THEN u
    ELSE LET ulp == Ulp(u)
             lo  == u - (u % ulp)
             hi  == lo + ulp
             r   == u - lo
         IN  IF 2 * r < ulp THEN lo
             ELSE IF 2 * r > ulp THEN hi
             ELSE IF (lo \div ulp) % 2 = 0 THEN lo ELSE hi

\* `n as f32`
AsF32(n) == IF n < 0 THEN 0 - RoundF32((0 - n) * F32_ONE) ELSE RoundF32(n * F32_ONE)

\* f32::sqrt, correctly rounded; NaN for a negative argument
F32SqrtNoRoot(x) == x
F32Sqrt(x) ==
    IF x = F32_NAN \/ x < 0 THEN F32_NAN
    ELSE IF x = 0 THEN 0
    ELSE LET v   == x * F32_ONE            \* (sqrt in units)^2
             fs  == ISqrt(v)
             ulp == Ulp(fs)
             lo  == fs - (fs % ulp)
             hi  == lo + ulp
         IN  IF lo * lo = v THEN lo
             ELSE IF (lo + hi) * (lo + hi) < 4 * v THEN hi
             ELSE IF (lo + hi) * (lo + hi) > 4 * v THEN lo
             ELSE IF (lo \div ulp) % 2 = 0 THEN lo ELSE hi

\* f32 `a > b`: false as soon as an operand is NaN
F32GtNanAsZero(a, b) == a > (IF b = F32_NAN THEN 0 ELSE b)
F32Gt(a, b) == a # F32_NAN /\ b # F32_NAN /\ a > b

\* i32 `a % b` for b > 0: the result takes the sign of the dividend
Rem(a, b) == IF a >= 0 THEN a % b ELSE 0 - ((0 - a) % b)

\* the two overflow behaviours of `+`: panic (debug-assertions) or wrap
Builds == {"debug", "release"}

\* ------------------------------------------------------------ is_prime_list
\* one pass of `for prime in &p`, from position k on
RECURSIVE ListLoop(_, _, _, _)
ListLoop(n, p, lim, k) ==
    IF k > Len(p) THEN [ret |-> FALSE, exit |-> "fallback"]
    ELSE IF Rem(n, p[k]) = 0 THEN [ret |-> FALSE, exit |-> "divisor"]
    ELSE IF F32Gt(AsF32(p[k]), lim) THEN [ret |-> TRUE, exit |-> "exceeds"]
    ELSE ListLoop(n, p, lim, k + 1)

is_prime_list(n, p) == ListLoop(n, p, F32Sqrt(AsF32(n)), 1)

\* ---------------------------------------------------------------- the state
VARIABLES
    op,        \* the function called by the client
    arg,       \* its integer argument (n, limit or m)
    argp,      \* the list argument of is_prime_list
    pc,        \* position of the running call
    limit,     \* generate_primes: limit
    p,         \* generate_primes: p;  is_prime: p
    cand,      \* generate_primes: n
    flimit,    \* is_prime: limit (f32)
    idx,       \* is_prime: position of `prime` in p
    ln,        \* is_prime_lazy: n
    i,         \* is_prime_lazy: i
    lret,      \* value returned by the last is_prime_lazy call
    calls,     \* arguments is_prime_lazy was called with, in order
    status,    \* "running", "returned" or "panicked"
    ret,       \* boolean returned to the client
    retp,      \* list returned to the client
    exit,      \* how the last list loop was left
    fallback,  \* some list loop ran off the end of its list
    overflow   \* some fixed-width addition left its range

vars == <<op, arg, argp, pc, limit, p, cand, flimit, idx, ln, i, lret, calls,
          status, ret, retp, exit, fallback, overflow>>

I32 == I32_MIN .. I32_MAX
U128 == 0 .. U128_MAX

\* the list of the tests is_prime_negative_numbers_test / is_prime_edge_case_test
TestPrimes == <<2, 3, 5, 7>>
ListElems == {2, 3, 5, 7, 13}
Lists == UNION {[1 .. k -> ListElems] : k \in 0 .. MaxListLen} \cup {TestPrimes}

Ops == {"generate_primes", "is_prime", "is_prime_list", "is_prime_lazy",
        "is_mersenne_prime"}

EntryPc(o) ==
    CASE o = "generate_primes"   -> "gen_enter"
      [] o = "is_prime"          -> "ip_enter"
      [] o = "is_prime_list"     -> "list_call"
      [] o = "is_prime_lazy"     -> "lazy_enter"
      [] o = "is_mersenne_prime" -> "mers_enter"

Init ==
    /\ op \in Ops
    /\ arg \in (IF op \in {"is_prime_lazy", "is_mersenne_prime"} THEN U128 ELSE I32)
    /\ argp \in (IF op = "is_prime_list" THEN Lists ELSE {<< >>})
    /\ pc = EntryPc(op)
    /\ limit = (IF op = "generate_primes" THEN arg ELSE 0)
    /\ ln = (IF op = "is_prime_lazy" THEN arg ELSE 0)
    /\ calls = (IF op = "is_prime_lazy" THEN <<arg>> ELSE << >>)
    /\ p = << >>
    /\ cand = 0
    /\ flimit = 0
    /\ idx = 0
    /\ i = 0
    /\ lret = FALSE
    /\ status = "running"
    /\ ret = FALSE
    /\ retp = << >>
    /\ exit = "none"
    /\ fallback = FALSE
    /\ overflow = FALSE

\* ---------------------------------------------------------- generate_primes
PanicsOnLimitZeroToo(l) == l <= 0
PanicsOnLimit(l) == l < 0

GenLoopCondInclusive(n, l) == n <= l
GenLoopCond(n, l) == n < l

\* lines 61-65: the precondition, then the seed
GenEnter ==
    /\ pc = "gen_enter"
    /\ IF PanicsOnLimit(limit)
       THEN /\ status' = "panicked"
            /\ pc' = "done"
            /\ UNCHANGED <<p, cand>>
       ELSE /\ p' = <<2, 3>>
            /\ cand' = 5
            /\ pc' = "gen_loop"
            /\ UNCHANGED status
    /\ UNCHANGED <<op, arg, argp, limit, flimit, idx, ln, i, lret, calls, ret,
                   retp, exit, fallback, overflow>>

\* lines 66-71: one iteration of `while n < limit`
GenLoop ==
    /\ pc = "gen_loop"
    /\ GenLoopCond(cand, limit)
    /\ LET r == is_prime_list(cand, p)
       IN  /\ p' = (IF r.ret THEN Append(p, cand) ELSE p)
           /\ exit' = r.exit
           /\ fallback' = (fallback \/ r.exit = "fallback")
    /\ \E build \in Builds :
          IF cand + 2 > I32_MAX
          THEN /\ overflow' = TRUE
               /\ IF build = "debug"
                  THEN /\ status' = "panicked"
                       /\ pc' = "done"
                       /\ UNCHANGED cand
                  ELSE /\ cand' = cand + 2 - 2 * (I32_MAX + 1)
                       /\ UNCHANGED <<status, pc>>
          ELSE /\ cand' = cand + 2
               /\ UNCHANGED <<overflow, status, pc>>
    /\ UNCHANGED <<op, arg, argp, limit, flimit, idx, ln, i, lret, calls, ret,
                   retp>>

\* lines 66, 72: the loop ends and p is returned, to the client or to is_prime
GenReturn ==
    /\ pc = "gen_loop"
    /\ ~GenLoopCond(cand, limit)
    /\ IF op = "generate_primes"
       THEN /\ retp' = p
            /\ status' = "returned"
            /\ pc' = "done"
            /\ UNCHANGED idx
       ELSE /\ idx' = 1
            /\ pc' = "ip_loop"
            /\ UNCHANGED <<retp, status>>
    /\ UNCHANGED <<op, arg, argp, limit, p, cand, flimit, ln, i, lret, calls,
                   ret, exit, fallback, overflow>>

\* ----------------------------------------------------------------- is_prime
EarlyFalseBelowOne(n) == n < 1
EarlyFalse(n) == n <= 1

HalfPlusOneAsRoot(n) == ISqrt(n) + 1
HalfPlusOne(n) == (n \div 2) + 1

\* lines 22-29: the early answers, the f32 limit, the call of generate_primes
IsPrimeEnter ==
    /\ pc = "ip_enter"
    /\ IF arg = 2
       THEN /\ ret' = TRUE
            /\ status' = "returned"
            /\ pc' = "done"
            /\ UNCHANGED <<flimit, limit>>
       ELSE IF EarlyFalse(arg)
       THEN /\ ret' = FALSE
            /\ status' = "returned"
            /\ pc' = "done"
            /\ UNCHANGED <<flimit, limit>>
       ELSE /\ flimit' = F32Sqrt(AsF32(arg))
            /\ limit' = HalfPlusOne(arg)
            /\ pc' = "gen_enter"
            /\ UNCHANGED <<ret, status>>
    /\ UNCHANGED <<op, arg, argp, p, cand, idx, ln, i, lret, calls, retp, exit,
                   fallback, overflow>>

\* lines 30-40: one iteration of `for prime in &p`, or the return after it
IsPrimeLoop ==
    /\ pc = "ip_loop"
    /\ IF idx > Len(p)
       THEN /\ ret' = FALSE
            /\ exit' = "fallback"
            /\ fallback' = TRUE
            /\ status' = "returned"
            /\ pc' = "done"
            /\ UNCHANGED idx
       ELSE IF Rem(arg, p[idx]) = 0
       THEN /\ ret' = FALSE
            /\ exit' = "divisor"
            /\ status' = "returned"
            /\ pc' = "done"
            /\ UNCHANGED <<idx, fallback>>
       ELSE IF F32Gt(AsF32(p[idx]), flimit)
       THEN /\ ret' = TRUE
            /\ exit' = "exceeds"
            /\ status' = "returned"
            /\ pc' = "done"
            /\ UNCHANGED <<idx, fallback>>
       ELSE /\ idx' = idx + 1
            /\ UNCHANGED <<ret, exit, fallback, status, pc>>
    /\ UNCHANGED <<op, arg, argp, limit, p, cand, flimit, ln, i, lret, calls,
                   retp, overflow>>

\* ------------------------------------------------- is_prime_list, called alone
\* lines 114-127
ListCall ==
    /\ pc = "list_call"
    /\ LET r == is_prime_list(arg, argp)
       IN  /\ ret' = r.ret
           /\ exit' = r.exit
           /\ fallback' = (r.exit = "fallback")
    /\ status' = "returned"
    /\ pc' = "done"
    /\ UNCHANGED <<op, arg, argp, limit, p, cand, flimit, idx, ln, i, lret,
                   calls, retp, overflow>>

\* ------------------------------------------------------------ is_prime_lazy
\* where a finished is_prime_lazy call returns to
LazyCont ==
    IF op = "is_prime_lazy" THEN "done"
    ELSE IF Len(calls) = 1 THEN "mers_second" ELSE "mers_return"

\* `return b` of is_prime_lazy
LazyRet(b) ==
    /\ lret' = b
    /\ pc' = LazyCont
    /\ IF op = "is_prime_lazy"
       THEN /\ ret' = b
            /\ status' = "returned"
       ELSE UNCHANGED <<ret, status>>

\* lines 166-175: the three early answers, else i = 3
LazyEnter ==
    /\ pc = "lazy_enter"
    /\ IF ln = 1 THEN LazyRet(FALSE) /\ UNCHANGED i
       ELSE IF ln = 2 THEN LazyRet(TRUE) /\ UNCHANGED i
       ELSE IF ln % 2 = 0 THEN LazyRet(FALSE) /\ UNCHANGED i
       ELSE /\ i' = 3
            /\ pc' = "lazy_loop"
            /\ UNCHANGED <<lret, ret, status>>
    /\ UNCHANGED <<op, arg, argp, limit, p, cand, flimit, idx, ln, calls, retp,
                   exit, fallback, overflow>>

LazyLoopCondUpToN(n, k) == k <= n
LazyLoopCond(n, k) == k <= n \div 2

\* lines 176-181: one iteration of `while i <= n / 2`
LazyLoop ==
    /\ pc = "lazy_loop"
    /\ LazyLoopCond(ln, i)
    /\ IF ln % i = 0
       THEN LazyRet(FALSE) /\ UNCHANGED <<i, overflow>>
       ELSE \E build \in Builds :
              IF i + 2 > U128_MAX
              THEN /\ overflow' = TRUE
                   /\ IF build = "debug"
                      THEN /\ status' = "panicked"
                           /\ pc' = "done"
                           /\ UNCHANGED <<i, lret, ret>>
                      ELSE /\ i' = i + 2 - (U128_MAX + 1)
                           /\ UNCHANGED <<status, pc, lret, ret>>
              ELSE /\ i' = i + 2
                   /\ UNCHANGED <<overflow, status, pc, lret, ret>>
    /\ UNCHANGED <<op, arg, argp, limit, p, cand, flimit, idx, ln, calls, retp,
                   exit, fallback>>

\* lines 176, 182: the loop ends without a divisor
LazyReturn ==
    /\ pc = "lazy_loop"
    /\ ~LazyLoopCond(ln, i)
    /\ LazyRet(TRUE)
    /\ UNCHANGED <<op, arg, argp, limit, p, cand, flimit, idx, ln, i, calls,
                   retp, exit, fallback, overflow>>

\* -------------------------------------------------------- is_mersenne_prime
\* line 206: the first test, is_prime_lazy(m)
MersenneEnter ==
    /\ pc = "mers_enter"
    /\ ln' = arg
    /\ calls' = <<arg>>
    /\ pc' = "lazy_enter"
    /\ UNCHANGED <<op, arg, argp, limit, p, cand, flimit, idx, i, lret, status,
                   ret, retp, exit, fallback, overflow>>

\* the argument of the second test
ExponentOfM(m) == ilog2(m)
Exponent(m) == ilog2(m + 1)

SecondTestNeeded(first) == first

\* lines 206-207, 211: after the first test; m + 1 leaves u128 only for
\* m = u128::MAX, and then the call panics under both builds (at the addition,
\* or at ilog2 of the wrapped 0)
MersenneSecond ==
    /\ pc = "mers_second"
    /\ IF ~SecondTestNeeded(lret)
       THEN /\ ret' = FALSE
            /\ status' = "returned"
            /\ pc' = "done"
            /\ UNCHANGED <<ln, calls, overflow>>
       ELSE IF arg + 1 > U128_MAX
       THEN /\ overflow' = TRUE
            /\ status' = "panicked"
            /\ pc' = "done"
            /\ UNCHANGED <<ln, calls, ret>>
       ELSE /\ ln' = Exponent(arg)
            /\ calls' = Append(calls, Exponent(arg))
            /\ pc' = "lazy_enter"
            /\ UNCHANGED <<ret, status, overflow>>
    /\ UNCHANGED <<op, arg, argp, limit, p, cand, flimit, idx, i, lret, retp,
                   exit, fallback>>

\* lines 207-211: after the second test
MersenneReturn ==
    /\ pc = "mers_return"
    /\ ret' = lret
    /\ status' = "returned"
    /\ pc' = "done"
    /\ UNCHANGED <<op, arg, argp, limit, p, cand, flimit, idx, ln, i, lret,
                   calls, retp, exit, fallback, overflow>>

\* ------------------------------------------------------------ specification
Next ==
    \/ GenEnter
    \/ GenLoop
    \/ GenReturn
    \/ IsPrimeEnter
    \/ IsPrimeLoop
    \/ ListCall
    \/ LazyEnter
    \/ LazyLoop
    \/ LazyReturn
    \/ MersenneEnter
    \/ MersenneSecond
    \/ MersenneReturn

Spec == Init /\ [][Next]_vars

\* the program is sequential and nothing suspends it: a call of
\* is_prime_lazy or is_mersenne_prime that can take a step takes it
LazySteps == LazyEnter \/ LazyLoop \/ LazyReturn
MersenneSteps == MersenneEnter \/ MersenneSecond \/ MersenneReturn
LiveSpec == Spec /\ WF_vars(LazySteps) /\ WF_vars(MersenneSteps)

TypeOK ==
    /\ op \in Ops
    /\ pc \in {"gen_enter", "gen_loop", "ip_enter", "ip_loop", "list_call",
               "lazy_enter", "lazy_loop", "mers_enter", "mers_second",
               "mers_return", "done"}
    /\ status \in {"running", "returned", "panicked"}
    /\ ret \in BOOLEAN
    /\ (pc = "done") = (status # "running")

\* --------------------------------------------------- reference definitions
Done == pc = "done"
Returned == status = "returned"

\* n is a prime number: n >= 2 and only 1 and n divide it
IsPrimeNumber(n) == n >= 2 /\ \A d \in 2 .. (n - 1) : n % d # 0

\* the primes q with k <= q < l, ascending
RECURSIVE PrimesFrom(_, _)
PrimesFrom(k, l) ==
    IF k >= l THEN << >>
    ELSE (IF IsPrimeNumber(k) THEN <<k>> ELSE << >>) \o PrimesFrom(k + 1, l)

\* floor(log2(x)) for x >= 1
FloorLog2(x) == CHOOSE k \in 0 .. x : Pow2(k) <= x /\ x < Pow2(k + 1)

\* ------------------------------------------------------------------ claims

\* C1: for every limit L >= 0, generate_primes(L) returns exactly the primes
\* q with 2 <= q < L, strictly ascending and without duplicates (so no
\* element is >= L, also for L = 0, 1, 2, 3).
C1_ExactlyPrimesBelowLimit ==
    (op = "generate_primes" /\ arg >= 0 /\ Done)
        => (Returned /\ retp = PrimesFrom(2, arg))

\* C2: is_prime(n) is true iff n >= 2 and no d with 2 <= d and d*d <= n
\* divides n; so it is false for every n <= 1 and true for n = 2.
C2_IsPrimeAgreesWithTrialDivision ==
    (op = "is_prime" /\ Done)
        => /\ Returned
           /\ ret = (arg >= 2 /\ \A d \in 2 .. arg : d * d <= arg => arg % d # 0)
           /\ (arg <= 1 => ~ret)
           /\ (arg = 2 => ret)

C2_Witness ==
    op = "is_prime" /\ Done /\ Returned /\ arg >= 3 /\ ret /\ exit = "exceeds"

\* C3: is_mersenne_prime(m) is true iff m is prime and m = 2^q - 1 for some
\* prime q; it is false for every prime m that is not of that form.
C3_TrueIffMersennePrime ==
    (op = "is_mersenne_prime" /\ Done)
        => /\ Returned
           /\ ret = (/\ IsPrimeNumber(arg)
                     /\ \E q \in 0 .. 8 : IsPrimeNumber(q) /\ arg = Pow2(q) - 1)

C5_PanicsIffNegativeLimit ==
    (op = "generate_primes" /\ Done)
        => /\ (status = "panicked") = (arg < 0)
           /\ (status = "panicked" => (p = << >> /\ retp = << >>))
           /\ (arg >= 0 => (Returned /\ retp = p /\ Len(retp) >= 2))

C5_Witness ==
    op = "generate_primes" /\ Done /\ status = "panicked" /\ arg < 0 /\ p = << >>

C7_LazyResult ==
    (op = "is_prime_lazy" /\ Done)
        => /\ Returned
           /\ ret = IsPrimeNumber(arg)
           /\ (arg \in {0, 1} => ~ret)
           /\ (arg = 2 => ret)
           /\ ((arg > 2 /\ arg % 2 = 0) => ~ret)
           /\ ((arg >= 3 /\ arg % 2 = 1)
                 => (~ret) = (\E k \in 3 .. (arg \div 2) : k % 2 = 1 /\ arg % k = 0))

C7_LazyIsPrimalityAndTerminates ==
    /\ [] C7_LazyResult
    /\ (op \in {"is_prime_lazy", "is_mersenne_prime"}) ~> Done

C7_Witness ==
    /\ op = "is_prime_lazy" /\ Done /\ Returned /\ ret
    /\ arg >= 7 /\ i > arg \div 2

\* C8: the `return false` after the list is exhausted is never reached in
\* sequential use: is_prime(n), n >= 3, decides inside its loop over
\* generate_primes(n/2 + 1), and so does is_prime_list(n, p) for every
\* candidate n that generate_primes visits.
C8_FallbackNeverReached ==
    op \in {"is_prime", "generate_primes"}
        => /\ ~fallback
           /\ exit # "fallback"
           /\ (op = "is_prime" /\ Done /\ arg >= 3) => exit \in {"divisor", "exceeds"}

C8_Witness ==
    op = "is_prime" /\ Done /\ arg >= 3 /\ Len(p) > 2 /\ exit = "exceeds"

C10_NoAbortByArithmetic ==
    /\ ~overflow
    /\ status = "panicked" => (op = "generate_primes" /\ arg < 0)
    /\ cand \in I32 /\ i \in U128
    /\ op = "is_prime" => limit >= 0
    /\ (op = "is_mersenne_prime" /\ arg = U128_MAX) => Len(calls) <= 1
    /\ \A k \in 1 .. Len(calls) : calls[k] \in U128

C10_Witness ==
    op = "generate_primes" /\ arg = I32_MAX /\ Done /\ Returned /\ cand = I32_MAX
====
